---- MODULE Spec2Model ----
(***************************************************************************)
(* Model of streamlit_app.py: the Binance volume spike analyser.           *)
(*                                                                         *)
(* The script ranks futures symbols by 24h quote volume                    *)
(* (get_top_futures_symbols), then for every ranked contract fetches the   *)
(* daily candles (fetch_ohlcv), scores them (detect_volume_spikes), keeps  *)
(* the contracts that have spikes (spike_summary / all_spike_data) and     *)
(* finally shows one contract and one date (plot_volume_spikes).           *)
(*                                                                         *)
(* Strings the code inspects character by character (symbols) are          *)
(* sequences of one-character strings; string-encoded decimals are         *)
(* sequences of digits; a timestamp is the record [ms |-> n] and a         *)
(* formatted date the record [ymd |-> d].  A DataFrame is the record       *)
(* [columns |-> <<names>>, rows |-> <<row records>>]; a row carries the    *)
(* columns the program reads (timestamp, volume, quote_asset_volume and    *)
(* the derived ones); the values of the other nine kline columns are       *)
(* never read and are not carried.                                         *)
(***************************************************************************)
EXTENDS Integers, Sequences, FiniteSets, TLC

VARIABLES
    pc,               \* position of the script
    error,            \* "none", or the exception that ended the script
    data,             \* get_top_futures_symbols: local data (response.json())
    limit,            \* get_top_futures_symbols: parameter limit
    sorted_data,      \* get_top_futures_symbols: local sorted_data
    idx,              \* get_top_futures_symbols: position of the for loop
    top_symbols,      \* get_top_futures_symbols: local top_symbols
    CONTRACTS,        \* module-level candidate list
    k,                \* position of `for contract in CONTRACTS`
    threshold_factor, \* detect_volume_spikes: parameter, <<num, den>>
    df,               \* the frame returned by fetch_ohlcv
    spikes_df,        \* the frame returned by detect_volume_spikes
    spike_summary,    \* ordered dict: sequence of <<contract, table>>
    all_spike_data,   \* ordered dict: sequence of <<contract, <<df, spikes_df>>>>
    selected_contract,
    selected_date,
    plot,             \* what plot_volume_spikes drew
    shown,            \* "success" or "warning" once the page shows one
    scored            \* history: len(spikes_df) of every contract scored so far

vars == <<pc, error, data, limit, sorted_data, idx, top_symbols, CONTRACTS,
          k, threshold_factor, df, spikes_df, spike_summary, all_spike_data,
          selected_contract, selected_date, plot, shown, scored>>

-----------------------------------------------------------------------------
(* Bounds of the model. *)

MaxTickers == 3     \* records in a ticker payload
MaxLimit == 2       \* largest limit passed to get_top_futures_symbols
MaxRows == 8        \* rows of a Series given to detect_volume_spikes alone
MaxPlotRows == 2    \* rows of a Series given to plot_volume_spikes alone
MaxDay == 2         \* days a chosen date ranges over

-----------------------------------------------------------------------------
(* Program constants. *)

WINDOW == 7                 \* rolling(window=7)
FLOOR == 100000000          \* quote_asset_volume >= 100_000_000
MsPerDay == 86400000        \* unit="ms", '%Y-%m-%d'

DefaultLimit == 20           \* def get_top_futures_symbols(limit=20)

DefaultThreshold == <<2, 1>>    \* def detect_volume_spikes(df, threshold_factor=2)
CallThreshold == <<11, 5>>      \* detect_volume_spikes(df, threshold_factor=2.2)

-----------------------------------------------------------------------------
(* Generic helpers. *)

Range(s) == {s[i] : i \in 1..Len(s)}

Min(a, b) == IF a <= b THEN a ELSE b

SeqsUpTo(S, n) == UNION {[1..m -> S] : m \in 0..n}

Injective(s) == \A i, j \in 1..Len(s) : s[i] = s[j] => i = j

-----------------------------------------------------------------------------
(* Symbols and the string tests of line 17. *)

BTCUSDT == <<"B", "T", "C", "U", "S", "D", "T">>
ETHUSDT == <<"E", "T", "H", "U", "S", "D", "T">>
SOLUSDT == <<"S", "O", "L", "U", "S", "D", "T">>
PERPUSDT == <<"P", "E", "R", "P", "U", "S", "D", "T">>
ETHBTC == <<"E", "T", "H", "B", "T", "C">>
BTCUSD_PERP == <<"B", "T", "C", "U", "S", "D", "_", "P", "E", "R", "P">>

Symbols == {BTCUSDT, ETHUSDT, SOLUSDT, PERPUSDT, ETHBTC, BTCUSD_PERP}

USDT == <<"U", "S", "D", "T">>
PERP == <<"P", "E", "R", "P">>

\* str.endswith(suffix)
EndsWith(s, suffix) ==
    /\ Len(s) >= Len(suffix)
    /\ SubSeq(s, Len(s) - Len(suffix) + 1, Len(s)) = suffix

\* sub in s
Contains(s, sub) ==
    \E i \in 1..(Len(s) - Len(sub) + 1) : SubSeq(s, i, i + Len(sub) - 1) = sub

\* item['symbol'].endswith('USDT') and 'PERP' not in item['symbol']
Qualifies(symbol) == EndsWith(symbol, USDT) /\ ~Contains(symbol, PERP)

-----------------------------------------------------------------------------
(* The 24hr ticker payload. *)

\* float(x) of a string of decimal digits
RECURSIVE ParseFloat(_)
ParseFloat(digits) ==
    IF digits = <<>> THEN 0
    ELSE 10 * ParseFloat(SubSeq(digits, 1, Len(digits) - 1)) + digits[Len(digits)]

QuoteVolumeStrings == {<<9>>, <<1, 0>>}

TickerRecords == [symbol : Symbols, quoteVolume : QuoteVolumeStrings]

\* a list of records, one per symbol
TickerLists ==
    {[kind |-> "list", items |-> s] :
        s \in {t \in SeqsUpTo(TickerRecords, MaxTickers) :
                 Injective([i \in 1..Len(t) |-> t[i].symbol])}}

\* payloads that are not a list of records carrying symbol and quoteVolume
ErrorDict == [kind |-> "dict", keys |-> <<"code", "msg">>]
EmptyDict == [kind |-> "dict", keys |-> <<>>]
NoQuoteVolumeList ==
    [kind |-> "list",
     items |-> <<[symbol |-> BTCUSDT, quoteVolume |-> <<9>>], [symbol |-> ETHUSDT]>>]

NoSymbolList ==
    [kind |-> "list",
     items |-> <<[symbol |-> BTCUSDT, quoteVolume |-> <<9>>], [quoteVolume |-> <<1, 0>>]>>]

MalformedPayloads == {ErrorDict, EmptyDict, NoQuoteVolumeList, NoSymbolList}

IsMalformed(payload) ==
    \/ payload.kind # "list"
    \/ \E i \in 1..Len(payload.items) :
          {"symbol", "quoteVolume"} \ DOMAIN payload.items[i] # {}

\* what iterating over the payload yields: the elements of a list, the keys of a dict
Elements(payload) ==
    IF payload.kind = "list" THEN payload.items ELSE payload.keys

\* the key without float(): strings compare character by character
Key_AsString(x) ==
    10 * x.quoteVolume[1] + (IF Len(x.quoteVolume) > 1 THEN x.quoteVolume[2] ELSE 0)

\* lambda x: float(x['quoteVolume'])
Key(x) == ParseFloat(x.quoteVolume)

\* the exception sorted(...) raises on the payload, "none" when it returns
SortError(payload) ==
    IF payload.kind = "dict"
    THEN IF payload.keys = <<>> THEN "none" ELSE "TypeError"
    ELSE IF \A i \in 1..Len(payload.items) : "quoteVolume" \in DOMAIN payload.items[i]
         THEN "none" ELSE "KeyError"

\* position of x in a list already in descending key order: behind every
\* element whose key is not smaller (sorted is stable, also with reverse=True)
RECURSIVE InsertDesc(_, _)
InsertDesc(s, x) ==
    IF s = <<>> THEN <<x>>
    ELSE IF Key(Head(s)) >= Key(x)
         THEN <<Head(s)>> \o InsertDesc(Tail(s), x)
         ELSE <<x>> \o s

\* sorted(data, key=lambda x: float(x['quoteVolume']), reverse=True)
RECURSIVE SortedDesc(_)
SortedDesc(s) ==
    IF s = <<>> THEN <<>>
    ELSE InsertDesc(SortedDesc(SubSeq(s, 1, Len(s) - 1)), s[Len(s)])

-----------------------------------------------------------------------------
(* DataFrames. *)

NaN == [nan |-> TRUE]

None == [kind |-> "None"]

KlineColumns ==
    <<"timestamp", "open", "high", "low", "close", "volume", "close_time",
      "quote_asset_volume", "number_of_trades", "taker_buy_base_asset_volume",
      "taker_buy_quote_asset_volume", "ignore">>

EmptyFrame == [columns |-> <<>>, rows |-> <<>>]

\* df[name] = ... : a new column goes to the end, an existing one keeps its place
WithColumn(columns, name) ==
    IF name \in Range(columns) THEN columns ELSE Append(columns, name)

\* df[name] = values, values aligned with the rows
Assign(frame, name, values) ==
    [columns |-> WithColumn(frame.columns, name),
     rows |-> [i \in 1..Len(frame.rows) |->
                 [c \in DOMAIN frame.rows[i] \cup {name} |->
                     IF c = name THEN values[i] ELSE frame.rows[i][c]]]]

\* df[mask] : a new frame holding the rows whose mask is true
Filter(frame, mask) ==
    LET RECURSIVE Pick(_)
        Pick(i) == IF i = 0 THEN <<>>
                   ELSE IF mask[i] THEN Append(Pick(i - 1), frame.rows[i])
                        ELSE Pick(i - 1)
    IN [columns |-> frame.columns, rows |-> Pick(Len(frame.rows))]

\* df[[names]] : a new frame holding the named columns
Project(frame, names) ==
    [columns |-> names,
     rows |-> [i \in 1..Len(frame.rows) |-> [c \in Range(names) |-> frame.rows[i][c]]]]

\* df[name] as a list
Column(frame, name) == [i \in 1..Len(frame.rows) |-> frame.rows[i][name]]

IsEmpty(frame) == Len(frame.rows) = 0

-----------------------------------------------------------------------------
(* fetch_ohlcv: the kline payload and its conversion. *)

\* pd.to_datetime(ms, unit="ms")
FromMs(ms) == [ms |-> ms]

\* one kline of the upstream: open time in ms, volume and quote volume as strings
Kline(open_time, volume, quote) == [open_time |-> open_time, volume |-> volume, quote |-> quote]

\* fetch_ohlcv on a payload that is a list of klines; a dict (an error payload
\* such as {"code": .., "msg": ..}) none of whose keys is a column gives a frame
\* with the twelve columns and no row
fetch_ohlcv(payload) ==
    [columns |-> KlineColumns,
     rows |-> IF payload.kind = "list"
              THEN [i \in 1..Len(payload.items) |->
                      [timestamp |-> FromMs(payload.items[i].open_time),
                       volume |-> ParseFloat(payload.items[i].volume),
                       quote_asset_volume |-> ParseFloat(payload.items[i].quote)]]
              ELSE <<>>]

-----------------------------------------------------------------------------
(* detect_volume_spikes. *)

RECURSIVE Sum(_)
Sum(s) == IF s = <<>> THEN 0 ELSE Head(s) + Sum(Tail(s))

Squares(s) == [i \in 1..Len(s) |-> s[i] * s[i]]

\* the trailing window ending at row i
Trailing(values, i) == SubSeq(values, i - WINDOW + 1, i)

\* Series.rolling(window=7).mean(): NaN until the window is full, then the
\* fraction num/den
RollingMean(values) ==
    [i \in 1..Len(values) |->
        IF i < WINDOW THEN NaN
        ELSE [num |-> Sum(Trailing(values, i)), den |-> WINDOW]]

\* Series.rolling(window=7).std(): NaN until the window is full, then the
\* square root of the sample variance sq_num/sq_den (ddof = 1)
RollingStd(values) ==
    [i \in 1..Len(values) |->
        IF i < WINDOW THEN NaN
        ELSE LET w == Trailing(values, i)
             IN [sq_num |-> WINDOW * Sum(Squares(w)) - Sum(w) * Sum(w),
                 sq_den |-> WINDOW * (WINDOW - 1)]]

\* the comparison written as not (v <= ma + tf * std): true on NaN
ExceedsBaseline_NaNTrue(v, ma, std, tf) ==
    IF ma = NaN \/ std = NaN THEN TRUE
    ELSE LET above == v * ma.den - ma.num
         IN /\ above > 0
            /\ above * above * tf[2] * tf[2] * std.sq_den
                  > tf[1] * tf[1] * std.sq_num * ma.den * ma.den

\* v > ma + tf * std, false when ma or std is NaN
ExceedsBaseline(v, ma, std, tf) ==
    IF ma = NaN \/ std = NaN THEN FALSE
    ELSE LET above == v * ma.den - ma.num
         IN /\ above > 0
            /\ above * above * tf[2] * tf[2] * std.sq_den
                  > tf[1] * tf[1] * std.sq_num * ma.den * ma.den

\* line 55 without the floor
detect_volume_spikes_NoFloor(frame, tf) ==
    LET df1 == Assign(frame, "volume_ma", RollingMean(Column(frame, "volume")))
        df2 == Assign(df1, "volume_std", RollingStd(Column(df1, "volume")))
        df3 == Assign(df2, "spike",
                      [i \in 1..Len(df2.rows) |->
                          ExceedsBaseline(df2.rows[i].volume, df2.rows[i].volume_ma,
                                          df2.rows[i].volume_std, tf)])
        mask == [i \in 1..Len(df3.rows) |-> df3.rows[i].spike]
    IN [df |-> df3, spikes_df |-> Filter(df3, mask)]

\* the rows without rolling statistics dropped from the argument
detect_volume_spikes_DropNaN(frame, tf) ==
    LET df1 == Assign(frame, "volume_ma", RollingMean(Column(frame, "volume")))
        df2 == Assign(df1, "volume_std", RollingStd(Column(df1, "volume")))
        df3 == Assign(df2, "spike",
                      [i \in 1..Len(df2.rows) |->
                          ExceedsBaseline(df2.rows[i].volume, df2.rows[i].volume_ma,
                                          df2.rows[i].volume_std, tf)])
        df4 == Filter(df3, [i \in 1..Len(df3.rows) |-> df3.rows[i].volume_ma # NaN])
        mask == [i \in 1..Len(df4.rows) |->
                    df4.rows[i].spike /\ df4.rows[i].quote_asset_volume >= FLOOR]
    IN [df |-> df4, spikes_df |-> Filter(df4, mask)]

\* the frame after lines 52-54 (the argument itself, changed in place) and the
\* frame of line 55 (a new one)
detect_volume_spikes(frame, tf) ==
    LET df1 == Assign(frame, "volume_ma", RollingMean(Column(frame, "volume")))
        df2 == Assign(df1, "volume_std", RollingStd(Column(df1, "volume")))
        df3 == Assign(df2, "spike",
                      [i \in 1..Len(df2.rows) |->
                          ExceedsBaseline(df2.rows[i].volume, df2.rows[i].volume_ma,
                                          df2.rows[i].volume_std, tf)])
        mask == [i \in 1..Len(df3.rows) |->
                    df3.rows[i].spike /\ df3.rows[i].quote_asset_volume >= FLOOR]
    IN [df |-> df3, spikes_df |-> Filter(df3, mask)]

-----------------------------------------------------------------------------
(* The aggregation loop: dicts and the date format. *)

\* the keys of a dict, in iteration order
Keys(d) == [i \in 1..Len(d) |-> d[i].key]

\* a new key put in front
DictSet_Front(d, key, value) ==
    IF key \in Range(Keys(d))
    THEN [i \in 1..Len(d) |-> IF d[i].key = key THEN [key |-> key, value |-> value] ELSE d[i]]
    ELSE <<[key |-> key, value |-> value]>> \o d

\* d[key] = value: a new key goes to the end, an existing key keeps its place
DictSet(d, key, value) ==
    IF key \in Range(Keys(d))
    THEN [i \in 1..Len(d) |-> IF d[i].key = key THEN [key |-> key, value |-> value] ELSE d[i]]
    ELSE Append(d, [key |-> key, value |-> value])

\* d[key]
DictGet(d, key) == d[CHOOSE i \in 1..Len(d) : d[i].key = key].value

\* Timestamp.strftime('%Y-%m-%d'): the day, the time of day dropped
StrfTime(ts) == [ymd |-> ts.ms \div MsPerDay]

\* pd.to_datetime('YYYY-MM-DD'): midnight of the day
ToDatetime(date) == [ms |-> date.ymd * MsPerDay]

\* spikes_df["timestamp"] = spikes_df["timestamp"].dt.strftime('%Y-%m-%d')
FormatTimestamps(frame) ==
    Assign(frame, "timestamp",
           [i \in 1..Len(frame.rows) |-> StrfTime(frame.rows[i].timestamp)])

-----------------------------------------------------------------------------
(* plot_volume_spikes. *)

EmptyStr == [kind |-> "str", chars |-> <<>>]

\* `if selected_date:`
Truthy(x) == x # None /\ x # EmptyStr

Points(frame, y) ==
    [i \in 1..Len(frame.rows) |-> <<frame.rows[i].timestamp, frame.rows[i][y]>>]

\* the comparison by calendar day
SelectedRow_SameDay(frame, date) ==
    Filter(frame, [i \in 1..Len(frame.rows) |-> StrfTime(frame.rows[i].timestamp) = date])

\* df[df["timestamp"] == pd.to_datetime(selected_date)]
SelectedRow(frame, date) ==
    Filter(frame, [i \in 1..Len(frame.rows) |-> frame.rows[i].timestamp = ToDatetime(date)])

\* what the figure holds: the volume line, the spike markers, the moving
\* average and the highlighted ("Selected Spike") markers
plot_volume_spikes(frame, spikes, date) ==
    [volume |-> Points(frame, "volume"),
     spikes |-> Points(spikes, "volume"),
     volume_ma |-> Points(frame, "volume_ma"),
     selected |-> IF Truthy(date) /\ ~IsEmpty(SelectedRow(frame, date))
                  THEN Points(SelectedRow(frame, date), "volume")
                  ELSE <<>>]

NoPlot == [volume |-> <<>>, spikes |-> <<>>, volume_ma |-> <<>>, selected |-> <<>>]

-----------------------------------------------------------------------------
(* What the upstream answers to a kline request. *)

Digits(n) == IF n = 1 THEN <<1>> ELSE IF n = 10 THEN <<1, 0>> ELSE <<1, 0, 0>>

BelowFloor == <<9, 9, 9, 9, 9, 9, 9, 9>>
AtFloor == <<1, 0, 0, 0, 0, 0, 0, 0, 0>>
AboveFloor == <<1, 5, 0, 0, 0, 0, 0, 0, 0>>

\* daily klines, one per day from day 0 on
Klines(volumes, quotes) ==
    [kind |-> "list",
     items |-> [i \in 1..Len(volumes) |->
                  Kline((i - 1) * MsPerDay, Digits(volumes[i]), quotes[i])]]

Flat == Klines(<<1, 1, 1, 1, 1, 1, 1, 1>>,
               [i \in 1..8 |-> AboveFloor])
OneSpike == Klines(<<1, 1, 1, 1, 1, 1, 10>>,
                   [i \in 1..7 |-> AtFloor])
SpikeBelowFloor == Klines(<<1, 1, 1, 1, 1, 1, 10>>,
                          [i \in 1..7 |-> BelowFloor])
TwoSpikes == Klines(<<1, 1, 1, 1, 1, 1, 10, 100>>,
                    [i \in 1..8 |-> AboveFloor])
Short == Klines(<<1, 10, 1>>, [i \in 1..3 |-> AboveFloor])
NoKlines == Klines(<<>>, <<>>)

\* requests.get raises, response.json() raises
Raises(exception) == [kind |-> "raise", error |-> exception]

KlineResponses ==
    {Flat, OneSpike, SpikeBelowFloor, TwoSpikes, Short, NoKlines, ErrorDict,
     Raises("ConnectionError"), Raises("JSONDecodeError")}

-----------------------------------------------------------------------------
(* The script. *)

Init ==
    /\ pc = "rank"
    /\ error = "none"
    /\ data \in TickerLists \cup MalformedPayloads
    /\ limit \in 1..MaxLimit \cup {DefaultLimit}
    /\ sorted_data = <<>>
    /\ idx = 0
    /\ top_symbols = <<>>
    /\ CONTRACTS = <<>>
    /\ k = 0
    /\ threshold_factor = CallThreshold
    /\ df = EmptyFrame
    /\ spikes_df = EmptyFrame
    /\ spike_summary = <<>>
    /\ all_spike_data = <<>>
    /\ selected_contract = None
    /\ selected_date = None
    /\ plot = NoPlot
    /\ shown = "nothing"
    /\ scored = <<>>

\* lines 12-15: the payload is sorted, or sorted raises
RankSort ==
    /\ pc = "rank"
    /\ IF SortError(data) # "none"
       THEN /\ pc' = "crashed"
            /\ error' = SortError(data)
            /\ UNCHANGED <<sorted_data, idx>>
       ELSE /\ sorted_data' = SortedDesc(Elements(data))
            /\ idx' = 1
            /\ pc' = IF sorted_data' = <<>> THEN "rank_return" ELSE "rank_loop"
            /\ error' = error
    /\ UNCHANGED <<data, limit, top_symbols, CONTRACTS, k, threshold_factor, df,
                   spikes_df, spike_summary, all_spike_data, selected_contract,
                   selected_date, plot, shown, scored>>

\* the list after one iteration of lines 17-18
Collect(symbols, item) ==
    IF Qualifies(item.symbol) THEN Append(symbols, item.symbol) ELSE symbols

\* the test with > for >=
Full_Strict(symbols, n) == Len(symbols) > n

\* `if len(top_symbols) >= limit: break`
Full(symbols, n) == Len(symbols) >= n

\* lines 16-20: one iteration of the collecting loop
RankIter ==
    /\ pc = "rank_loop"
    /\ LET item == sorted_data[idx]
       IN IF "symbol" \notin DOMAIN item
          THEN /\ pc' = "crashed"
               /\ error' = "KeyError"
               /\ UNCHANGED <<top_symbols, idx>>
          ELSE /\ top_symbols' = Collect(top_symbols, item)
               /\ IF Full(top_symbols', limit) \/ idx = Len(sorted_data)
                  THEN pc' = "rank_return" /\ idx' = idx
                  ELSE pc' = "rank_loop" /\ idx' = idx + 1
               /\ error' = error
    /\ UNCHANGED <<data, limit, sorted_data, CONTRACTS, k, threshold_factor, df,
                   spikes_df, spike_summary, all_spike_data, selected_contract,
                   selected_date, plot, shown, scored>>

\* lines 21 and 25: CONTRACTS = get_top_futures_symbols(); the locals are gone
RankReturn ==
    /\ pc = "rank_return"
    /\ CONTRACTS' = top_symbols
    /\ data' = None
    /\ sorted_data' = <<>>
    /\ top_symbols' = <<>>
    /\ idx' = 0
    /\ k' = 1
    /\ pc' = "loop"
    /\ UNCHANGED <<error, limit, threshold_factor, df, spikes_df, spike_summary,
                   all_spike_data, selected_contract, selected_date, plot, shown, scored>>

\* lines 88-89: df = fetch_ohlcv(contract, days=30), on what the upstream answers
Fetch ==
    /\ pc = "loop"
    /\ k <= Len(CONTRACTS)
    /\ \E answer \in KlineResponses :
          IF answer.kind = "raise"
          THEN /\ pc' = "crashed"
               /\ error' = answer.error
               /\ df' = df
          ELSE /\ df' = fetch_ohlcv(answer)
               /\ pc' = "detect"
               /\ error' = error
    /\ UNCHANGED <<data, limit, sorted_data, idx, top_symbols, CONTRACTS, k,
                   threshold_factor, spikes_df, spike_summary, all_spike_data,
                   selected_contract, selected_date, plot, shown, scored>>

\* line 90: spikes_df = detect_volume_spikes(df, threshold_factor=2.2)
Detect ==
    /\ pc = "detect"
    /\ threshold_factor' = CallThreshold
    /\ df' = detect_volume_spikes(df, CallThreshold).df
    /\ spikes_df' = detect_volume_spikes(df, CallThreshold).spikes_df
    /\ scored' = Append(scored, Len(spikes_df'.rows))
    /\ pc' = "store"
    /\ UNCHANGED <<error, data, limit, sorted_data, idx, top_symbols, CONTRACTS, k,
                   spike_summary, all_spike_data, selected_contract, selected_date,
                   plot, shown>>

\* the test left out
Keep_Always(spikes) == TRUE

\* `if not spikes_df.empty:`
Keep(spikes) == ~IsEmpty(spikes)

\* lines 92-95, and the loop goes to the next contract
Store ==
    /\ pc = "store"
    /\ IF Keep(spikes_df)
       THEN /\ spikes_df' = FormatTimestamps(spikes_df)
            /\ spike_summary' =
                  DictSet(spike_summary, CONTRACTS[k],
                          Project(spikes_df', <<"timestamp", "quote_asset_volume">>))
            /\ all_spike_data' = DictSet(all_spike_data, CONTRACTS[k], <<df, spikes_df'>>)
       ELSE UNCHANGED <<spikes_df, spike_summary, all_spike_data>>
    /\ k' = k + 1
    /\ pc' = "loop"
    /\ UNCHANGED <<error, data, limit, sorted_data, idx, top_symbols, CONTRACTS,
                   threshold_factor, df, selected_contract, selected_date, plot, shown, scored>>

\* lines 98-115: the page after the loop; the two selectboxes offer the keys
\* of spike_summary and the dates of the chosen table
Display ==
    /\ pc = "loop"
    /\ k > Len(CONTRACTS)
    /\ IF spike_summary # <<>>
       THEN \E contract \in Range(Keys(spike_summary)) :
              \E date \in Range(Column(DictGet(spike_summary, contract), "timestamp")) :
                 /\ selected_contract' = contract
                 /\ selected_date' = date
                 /\ plot' = plot_volume_spikes(DictGet(all_spike_data, contract)[1],
                                               DictGet(all_spike_data, contract)[2],
                                               date)
                 /\ shown' = "success"
       ELSE /\ shown' = "warning"
            /\ UNCHANGED <<selected_contract, selected_date, plot>>
    /\ pc' = "done"
    /\ UNCHANGED <<error, data, limit, sorted_data, idx, top_symbols, CONTRACTS, k,
                   threshold_factor, df, spikes_df, spike_summary, all_spike_data,
                   scored>>

Next == RankSort \/ RankIter \/ RankReturn \/ Fetch \/ Detect \/ Store \/ Display

Spec == Init /\ [][Next]_vars

-----------------------------------------------------------------------------
(* detect_volume_spikes alone, on every Series within the bounds. *)

\* <<volume, quote_asset_volume>> of a candle: a quiet day at the floor, a busy
\* day just below the floor, a very busy day at the floor
Candles == {<<1, FLOOR>>, <<10, FLOOR - 1>>, <<100, FLOOR>>}

\* a Series as fetch_ohlcv returns it: one row per day from day 0 on
Series(candles) ==
    [columns |-> KlineColumns,
     rows |-> [i \in 1..Len(candles) |->
                 [timestamp |-> FromMs((i - 1) * MsPerDay),
                  volume |-> candles[i][1],
                  quote_asset_volume |-> candles[i][2]]]]

Idle ==
    /\ error = "none"
    /\ data = None
    /\ limit = DefaultLimit
    /\ sorted_data = <<>>
    /\ idx = 0
    /\ top_symbols = <<>>
    /\ CONTRACTS = <<>>
    /\ k = 0
    /\ spike_summary = <<>>
    /\ all_spike_data = <<>>
    /\ selected_contract = None
    /\ plot = NoPlot
    /\ shown = "nothing"
    /\ scored = <<>>

InitDetect ==
    /\ pc = "detect_call"
    /\ df \in {Series(c) : c \in SeqsUpTo(Candles, MaxRows)}
    /\ threshold_factor \in {DefaultThreshold, CallThreshold}
    /\ spikes_df = EmptyFrame
    /\ selected_date = None
    /\ Idle

\* spikes_df = detect_volume_spikes(df, threshold_factor)
DetectCall ==
    /\ pc = "detect_call"
    /\ df' = detect_volume_spikes(df, threshold_factor).df
    /\ spikes_df' = detect_volume_spikes(df, threshold_factor).spikes_df
    /\ pc' = "detect_done"
    /\ UNCHANGED <<error, data, limit, sorted_data, idx, top_symbols, CONTRACTS, k,
                   threshold_factor, spike_summary, all_spike_data, selected_contract,
                   selected_date, plot, shown, scored>>

NextDetect == DetectCall

SpecDetect == InitDetect /\ [][NextDetect]_vars

-----------------------------------------------------------------------------
(* plot_volume_spikes alone, on scored Series whose rows open at midnight  *)
(* or at noon, and on every chosen date within the bounds.                 *)

PlotTimes == {d * MsPerDay + o : d \in 0..MaxDay, o \in {0, MsPerDay \div 2}}

PlotSeries ==
    {[columns |-> KlineColumns,
      rows |-> [i \in 1..Len(t) |->
                  [timestamp |-> FromMs(t[i]), volume |-> 1, quote_asset_volume |-> FLOOR]]] :
        t \in {u \in SeqsUpTo(PlotTimes, MaxPlotRows) :
                 \A i \in 1..(Len(u) - 1) : u[i] < u[i + 1]}}

PlotDates == {None, EmptyStr} \cup {[ymd |-> d] : d \in 0..(MaxDay + 1)}

InitPlot ==
    /\ pc = "plot_call"
    /\ \E series \in PlotSeries :
          /\ df = detect_volume_spikes(series, CallThreshold).df
          /\ spikes_df = FormatTimestamps(detect_volume_spikes(series, CallThreshold).spikes_df)
    /\ threshold_factor = CallThreshold
    /\ selected_date \in PlotDates
    /\ Idle

\* plot_volume_spikes(df, spikes_df, selected_date)
PlotCall ==
    /\ pc = "plot_call"
    /\ plot' = plot_volume_spikes(df, spikes_df, selected_date)
    /\ pc' = "plot_done"
    /\ UNCHANGED <<error, data, limit, sorted_data, idx, top_symbols, CONTRACTS, k,
                   threshold_factor, df, spikes_df, spike_summary, all_spike_data,
                   selected_contract, selected_date, shown, scored>>

NextPlot == PlotCall

SpecPlot == InitPlot /\ [][NextPlot]_vars

-----------------------------------------------------------------------------
(* Properties of get_top_futures_symbols. *)

\* C4: for every limit >= 1, after every iteration of the collecting loop
\* top_symbols has at most limit entries, each ending with "USDT" and none
\* containing "PERP".
C4_BoundedAndFiltered ==
    limit >= 1 =>
        /\ Len(top_symbols) <= limit
        /\ \A i \in 1..Len(top_symbols) :
              /\ EndsWith(top_symbols[i], USDT)
              /\ ~Contains(top_symbols[i], PERP)

\* the loop stopped at the limit with records left, one of them qualifying,
\* after it had passed over a record that does not qualify
C4_Witness ==
    /\ pc = "rank_return"
    /\ Len(top_symbols) = limit
    /\ \E i \in 1..idx : ~Qualifies(sorted_data[i].symbol)
    /\ \E i \in (idx + 1)..Len(sorted_data) : Qualifies(sorted_data[i].symbol)

\* the quote volume the ticker list gives for a symbol
QuoteVolumeOf(symbol) ==
    ParseFloat((CHOOSE x \in Range(data.items) : x.symbol = symbol).quoteVolume)

QualifyingSymbols == {x.symbol : x \in {y \in Range(data.items) : Qualifies(y.symbol)}}

\* C5: the list returned is made of min(limit, q) distinct qualifying symbols
\* of the ticker list, in non-increasing order of quote volume, and no
\* qualifying symbol left out has a strictly higher quote volume than one
\* returned.
C5_TopByQuoteVolume ==
    (pc = "rank_return" /\ data.kind = "list") =>
        /\ Len(top_symbols) = Min(limit, Cardinality(QualifyingSymbols))
        /\ Injective(top_symbols)
        /\ Range(top_symbols) \subseteq QualifyingSymbols
        /\ \A i, j \in 1..Len(top_symbols) :
              i < j => QuoteVolumeOf(top_symbols[i]) >= QuoteVolumeOf(top_symbols[j])
        /\ \A out \in QualifyingSymbols \ Range(top_symbols) :
              \A in \in Range(top_symbols) : QuoteVolumeOf(out) <= QuoteVolumeOf(in)

\* more symbols qualify than the limit lets through, and the ticker list had a
\* returned symbol behind a symbol of lower quote volume that was left out
C5_Witness ==
    /\ pc = "rank_return"
    /\ data.kind = "list"
    /\ Cardinality(QualifyingSymbols) > limit
    /\ \E i, j \in 1..Len(data.items) :
          /\ i < j
          /\ data.items[j].symbol \in Range(top_symbols)
          /\ Qualifies(data.items[i].symbol)
          /\ data.items[i].symbol \notin Range(top_symbols)
          /\ Key(data.items[i]) < Key(data.items[j])

\* C3: a malformed ticker payload never ends the script with an exception.
C3_MalformedTolerated ==
    (data # None /\ IsMalformed(data)) => pc # "crashed"

-----------------------------------------------------------------------------
(* Properties of detect_volume_spikes. *)

\* row i of df has a row of spikes_df
InSpikeRecord(i) ==
    \E j \in 1..Len(spikes_df.rows) :
        /\ spikes_df.rows[j].timestamp = df.rows[i].timestamp
        /\ spikes_df.rows[j].volume = df.rows[i].volume
        /\ spikes_df.rows[j].quote_asset_volume = df.rows[i].quote_asset_volume

\* sum over the window ending at row i of (WINDOW * x - sum of the window)^2;
\* the sample variance of the window is this over WINDOW^2 * (WINDOW - 1)
Deviation(i) ==
    LET w == [j \in 1..WINDOW |-> df.rows[i - WINDOW + j].volume]
    IN Sum([j \in 1..WINDOW |-> (WINDOW * w[j] - Sum(w)) * (WINDOW * w[j] - Sum(w))])

\* volume[i] > rollingMean[i] + threshold_factor * rollingStd[i], both sides
\* scaled by WINDOW and squared
RelativeAnomaly(i) ==
    /\ i >= WINDOW
    /\ LET above == WINDOW * df.rows[i].volume
                      - Sum([j \in 1..WINDOW |-> df.rows[i - WINDOW + j].volume])
       IN /\ above > 0
          /\ above * above * threshold_factor[2] * threshold_factor[2] * (WINDOW - 1)
                > threshold_factor[1] * threshold_factor[1] * Deviation(i)

AboveFloorRow(i) == df.rows[i].quote_asset_volume >= FLOOR

\* C1: a row is in the SpikeRecord iff its volume exceeds the rolling mean by
\* more than threshold_factor rolling standard deviations and its quote volume
\* is at least the floor.
C1_SpikeIffBoth ==
    pc = "detect_done" =>
        /\ Len(spikes_df.rows) <= Len(df.rows)
        /\ \A i \in 1..Len(df.rows) :
              InSpikeRecord(i) <=> (RelativeAnomaly(i) /\ AboveFloorRow(i))

\* a Series with a row in the SpikeRecord, a row that only clears the floor
\* and a row that only is a relative anomaly
C1_Witness ==
    /\ pc = "detect_done"
    /\ \E i \in 1..Len(df.rows) : InSpikeRecord(i)
    /\ \E i \in 1..Len(df.rows) : AboveFloorRow(i) /\ ~RelativeAnomaly(i) /\ ~InSpikeRecord(i)
    /\ \E i \in 1..Len(df.rows) : RelativeAnomaly(i) /\ ~AboveFloorRow(i) /\ ~InSpikeRecord(i)

\* C6: no row among the first WINDOW - 1 rows is in the SpikeRecord, so a
\* Series of fewer than WINDOW rows has an empty SpikeRecord.
C6_NoFlagBeforeWindow ==
    pc = "detect_done" =>
        /\ \A i \in 1..Min(WINDOW - 1, Len(df.rows)) : ~InSpikeRecord(i)
        /\ Len(df.rows) < WINDOW => IsEmpty(spikes_df)

\* a Series one row short of the window whose last row is a very busy day at
\* the floor after quiet days
C6_Witness ==
    /\ pc = "detect_done"
    /\ Len(df.rows) = WINDOW - 1
    /\ \A i \in 1..(WINDOW - 2) : df.rows[i].volume = 1
    /\ df.rows[WINDOW - 1].volume = 100
    /\ AboveFloorRow(WINDOW - 1)
    /\ IsEmpty(spikes_df)

-----------------------------------------------------------------------------
(* Properties of the aggregation loop. *)

\* C2: once the aggregation loop has started, no failing fetch ends the
\* script: the loop goes on with the other candidates.
C2_FetchFailureIsolated ==
    k >= 1 => pc # "crashed"

\* C7: between iterations and after the loop, spike_summary and
\* all_spike_data have the same keys, and a symbol is a key iff it is a
\* candidate already scored whose SpikeRecord is not empty.
C7_KeysAreSpikedCandidates ==
    pc \in {"loop", "done"} =>
        /\ Keys(spike_summary) = Keys(all_spike_data)
        /\ Len(scored) = k - 1
        /\ \A symbol \in Symbols :
              symbol \in Range(Keys(spike_summary))
                 <=> \E j \in 1..(k - 1) : CONTRACTS[j] = symbol /\ scored[j] > 0

\* two candidates are done, one with spikes and one without
C7_Witness ==
    /\ pc = "loop"
    /\ k = 3
    /\ \E j \in 1..2 : scored[j] > 0
    /\ \E j \in 1..2 : scored[j] = 0
    /\ Len(spike_summary) = 1

\* C8: the keys of spike_summary are in the order of the candidate list: of
\* two keys the one listed earlier is ranked earlier in CONTRACTS.
C8_KeysInRankOrder ==
    \A a, b \in 1..Len(spike_summary) :
        a < b => \E i, j \in 1..Len(CONTRACTS) :
                    /\ i < j
                    /\ CONTRACTS[i] = spike_summary[a].key
                    /\ CONTRACTS[j] = spike_summary[b].key

\* the page offers the first and the third of three candidates
C8_Witness ==
    /\ pc = "done"
    /\ shown = "success"
    /\ Len(CONTRACTS) = 3
    /\ Keys(spike_summary) = <<CONTRACTS[1], CONTRACTS[3]>>

DerivedColumns == <<"volume_ma", "volume_std", "spike">>

\* C9, as claimed: detect_volume_spikes leaves the frame it is given as it
\* was, and the SpikeRecord kept for plotting is the one detect_volume_spikes
\* returned, not changed by the date format.
C9_SeriesUntouched ==
    [][/\ pc = "detect" => df' = df
       /\ (pc = "store" /\ Keep(spikes_df)) =>
              DictGet(all_spike_data', CONTRACTS[k])[2] = spikes_df]_vars

\* C9, amended: detect_volume_spikes adds the three derived columns to the
\* frame it is given and changes neither its rows nor the values of the
\* columns it had; the date format leaves that frame alone, and the SpikeRecord
\* kept for plotting is the formatted one: its timestamps are the days of the
\* rows, the other columns are as detect_volume_spikes returned them.
C9_DerivedColumnsInPlace ==
    [][/\ pc = "detect" =>
             /\ df'.columns = df.columns \o DerivedColumns
             /\ Len(df'.rows) = Len(df.rows)
             /\ \A i \in 1..Len(df.rows) :
                   /\ DOMAIN df'.rows[i] = DOMAIN df.rows[i] \cup Range(DerivedColumns)
                   /\ \A c \in DOMAIN df.rows[i] : df'.rows[i][c] = df.rows[i][c]
       /\ (pc = "store" /\ Keep(spikes_df)) =>
             /\ df' = df
             /\ DictGet(all_spike_data', CONTRACTS[k]) = <<df, spikes_df'>>
             /\ spikes_df'.columns = spikes_df.columns
             /\ Len(spikes_df'.rows) = Len(spikes_df.rows)
             /\ \A i \in 1..Len(spikes_df.rows) :
                   /\ DOMAIN spikes_df'.rows[i] = DOMAIN spikes_df.rows[i]
                   /\ spikes_df'.rows[i].timestamp
                         = [ymd |-> spikes_df.rows[i].timestamp.ms \div MsPerDay]
                   /\ \A c \in DOMAIN spikes_df.rows[i] \ {"timestamp"} :
                         spikes_df'.rows[i][c] = spikes_df.rows[i][c]]_vars

\* a contract with spikes has been scored and kept: its frame carries the
\* derived columns and its SpikeRecord the formatted dates
C9_Witness ==
    /\ pc = "loop"
    /\ k = 2
    /\ Len(all_spike_data) = 1
    /\ all_spike_data[1].value[1].columns = KlineColumns \o DerivedColumns
    /\ "ymd" \in DOMAIN all_spike_data[1].value[2].rows[1].timestamp

-----------------------------------------------------------------------------
(* Properties of plot_volume_spikes. *)

\* the rows of df whose timestamp is the chosen day at midnight
ExactRows ==
    IF Truthy(selected_date)
    THEN {i \in 1..Len(df.rows) :
            /\ df.rows[i].timestamp.ms \div MsPerDay = selected_date.ymd
            /\ df.rows[i].timestamp.ms % MsPerDay = 0}
    ELSE {}

\* C10: the plot has a highlighted point iff some row's timestamp equals the
\* chosen date exactly, and the highlighted points are those rows; without
\* such a row or without a date there is none.
C10_HighlightIffExact ==
    pc = "plot_done" =>
        /\ plot.selected # <<>> <=> ExactRows # {}
        /\ Range(plot.selected) = {<<df.rows[i].timestamp, df.rows[i].volume>> : i \in ExactRows}

\* a date is chosen, a row opens on that day at noon, nothing is highlighted
C10_Witness ==
    /\ pc = "plot_done"
    /\ Truthy(selected_date)
    /\ \E i \in 1..Len(df.rows) :
          /\ df.rows[i].timestamp.ms \div MsPerDay = selected_date.ymd
          /\ df.rows[i].timestamp.ms % MsPerDay # 0
    /\ plot.selected = <<>>

====
